---- MODULE Spec2Model ----
(***************************************************************************)
(* Deck-Link connection establishment and session protocol                 *)
(* (src/src/deck_link/server.py, src/src/deck_link/protocol.py).           *)
(*                                                                         *)
(* Every DeckLinkServer instance is one record srv[p].  A handler is an    *)
(* operator from a server record to the server record it leaves behind;    *)
(* the messages it sent, the events it emitted and the channels it closed  *)
(* during one uninterrupted run (from one await to the next) are the       *)
(* fields sent, evts and closes of that record: they are the outputs of    *)
(* the run, delivered when the run ends, and no part of the state that is  *)
(* kept.  A coroutine that can be suspended at an await with work left to  *)
(* do has a program counter.                                               *)
(***************************************************************************)
EXTENDS Integers, Sequences, FiniteSets, TLC

\* ------------------------------------------------------------------ bounds
MaxChan      == 2    \* websocket connections that exist during a run
MaxPingTasks == 1    \* heartbeat tasks alive at the same time in a process

\* ------------------------------------------------------- program constants
PingInterval == 5    \* asyncio.sleep(5)
PingTimeout  == 10   \* time.time() - self._last_pong > 10

\* ------------------------------------------------------------------ values
Procs    == {"a", "b"}
Chan     == 1 .. MaxChan
TaskIds  == 1 .. MaxPingTasks
NoWs     == 0                        \* Optional websocket: None
NoTask   == 0                        \* Optional task: None
None     == [none |-> TRUE]          \* Optional record: None

\* uuid4 values of connect_to; the ids a peer can put in a frame are the same
SessionIds  == {"s1", "s2"}
\* the uuid4 of a message whose session_id no handler reads: another value
FreshId     == "s0"
\* what generate_passphrase can return
Secrets     == {"p1", "p2"}
\* what a peer or the local user can type: a secret, the empty string
Passphrases == Secrets \cup {""}
Hosts       == {"h1"}
DeviceName  == [a |-> "A", b |-> "B"]

\* class ConnectionState
DISCONNECTED        == "disconnected"
AWAITING_CHALLENGE  == "awaiting_challenge"
CHALLENGE_SENT      == "challenge_sent"
AWAITING_AUTH_INPUT == "awaiting_auth_input"
CONNECTED           == "connected"
ERROR               == "error"
ConnectionState == {DISCONNECTED, AWAITING_CHALLENGE, CHALLENGE_SENT,
                    AWAITING_AUTH_INPUT, CONNECTED, ERROR}

\* ---------------------------------------------------------------- messages
\* class Message: type, session_id, payload (timestamp is informational and
\* read by no handler).  The factory functions of protocol.py; a factory
\* that is given no session_id takes the default, a new uuid4, here u.
connection_request(u, sender_name, sender_ip) ==
    [type |-> "connection_request", session_id |-> u,
     payload |-> [sender_name |-> sender_name, sender_ip |-> sender_ip]]

\* A CHALLENGE_RESPONSE built without the session_id of the request (it gets
\* the default uuid4)
challenge_responseFresh(session_id, receiver_name) ==
    [type |-> "challenge_response", session_id |-> FreshId,
     payload |-> [receiver_name |-> receiver_name,
                  message |-> "Enter the passphrase shown on the other device"]]

challenge_response(session_id, receiver_name) ==
    [type |-> "challenge_response", session_id |-> session_id,
     payload |-> [receiver_name |-> receiver_name,
                  message |-> "Enter the passphrase shown on the other device"]]

auth_attempt(session_id, passphrase) ==
    [type |-> "auth_attempt", session_id |-> session_id,
     payload |-> [passphrase |-> passphrase]]

auth_result(session_id, success, message) ==
    [type |-> "auth_result", session_id |-> session_id,
     payload |-> [success |-> success, message |-> message]]

ping(u) == [type |-> "ping", session_id |-> u, payload |-> None]

pong(ping_session_id) ==
    [type |-> "pong", session_id |-> ping_session_id, payload |-> None]

disconnect(u) ==
    [type |-> "disconnect", session_id |-> u,
     payload |-> [reason |-> "User requested disconnect"]]

error(u, message, code) ==
    [type |-> "error", session_id |-> u,
     payload |-> [message |-> message, code |-> code]]

notification(u, title, body) ==
    [type |-> "notification", session_id |-> u,
     payload |-> [title |-> title, body |-> body]]

\* A frame Message.from_json / from_bytes rejects (it raises).
Malformed == [type |-> "malformed", session_id |-> "", payload |-> None]

\* ------------------------------------------------------------- the passphrase
\* deck_link/passphrase.py: secrets_match(candidate, expected)
validate_passphrase(input, expected) == input = expected

\* ------------------------------------------------------------------- state
VARIABLES srv,    \* srv[p]: the DeckLinkServer of process p
          chan,   \* chan[c]: the websocket connection c
          wire,   \* wire[c][p]: frames in flight on c towards process p
          user,   \* the commands the user of process "a" has planned
          ghost,  \* history the properties read, not the program
          codec   \* a Message on its way through encoding and decoding

vars == <<srv, chan, wire, user, ghost, codec>>

\* A websocket connection: who dialed it, who accepted it, and whether it is
\* open, closed with a close frame ("closed_ok": iteration over the
\* connection ends) or lost ("closed_err": iteration raises ConnectionClosed).
FreeChan == [status |-> "free", dialer |-> "", acceptor |-> ""]
\* a closed connection that no reader task has yet to find closed
DeadChan == [status |-> "closed_ok", dialer |-> "", acceptor |-> ""]

\* A reader task: _handle_connection ("server") or _client_listen ("client").
\* pc: "none" no task, "idle" waiting for a frame, "auth_ok" / "auth_fail"
\* suspended in the send of _handle_auth_attempt, "done" returned.
NoReader == [pc |-> "none", role |-> ""]
DoneReader == [pc |-> "done", role |-> ""]

\* A heartbeat task (ping_loop): "none", "start" created and not yet run,
\* "send" suspended in websocket.send, "sleep" in asyncio.sleep with rem left.
NoPing == [pc |-> "none", rem |-> 0, ws |-> NoWs]

\* The command task (one command at a time, JsonRpcServer.start).
IdleCmd == [pc |-> "idle", ws |-> NoWs, sid |-> "", host |-> ""]

\* DeckLinkServer.__init__
InitServer(p) ==
    [name        |-> DeviceName[p],
     state       |-> DISCONNECTED,
     session     |-> None,
     peer        |-> None,
     websocket   |-> NoWs,
     ping_task   |-> NoTask,
     pong_age    |-> PingTimeout + 1,      \* now - _last_pong, _last_pong = 0
     tasks       |-> [t \in TaskIds |-> NoPing],
     rd          |-> [c \in Chan |-> NoReader],
     cmd         |-> IdleCmd,
     sent        |-> <<>>,
     evts        |-> <<>>,
     closes      |-> {},
     exc         |-> "",
     overflow    |-> FALSE]

\* ------------------------------------------------------------ effects
\* What a run leaves in the process: its outputs are gone.  _last_pong is
\* read by ping_loop alone, which assigns it before it reads it: while no
\* ping_loop is alive its age is not followed.
Strip(s) ==
    [s EXCEPT !.sent = <<>>, !.evts = <<>>, !.closes = {},
              !.pong_age = IF \A t \in TaskIds : s.tasks[t].pc = "none"
                           THEN PingTimeout + 1 ELSE @]

\* DeckLinkServer._emit
Emit(s, e) == [s EXCEPT !.evts = Append(@, e)]

Event(name, data) == [name |-> name, data |-> data]

\* A _set_state that assigns the state and tells nobody
SetStateSilent(s, state) == [s EXCEPT !.state = state]

\* DeckLinkServer._set_state
SetState(s, state) ==
    Emit([s EXCEPT !.state = state],
         Event("state_changed", [old_state |-> s.state, new_state |-> state]))

\* websocket.send on an open connection
Send(s, c, m) == [s EXCEPT !.sent = Append(@, [ws |-> c, msg |-> m])]

\* websocket.send raises ConnectionClosed on a connection that is not open
CanSend(c) == c # NoWs /\ chan[c].status = "open"

\* An exception leaves the handler: "closed" is ConnectionClosed, "error" any
\* other Exception.  The code after the raising statement does not run.
Raise(s, exc) == [s EXCEPT !.exc = exc]

\* task.cancel() of a heartbeat task: a suspended task ends at its await
\* (CancelledError is no Exception); a finished task is left alone.
CancelTask(s, t) == [s EXCEPT !.tasks[t] = NoPing]

\* DeckLinkServer._handle_disconnect
HandleDisconnect(s) ==
    LET s1 == SetState(s, DISCONNECTED)
        s2 == [s1 EXCEPT !.websocket = NoWs, !.peer = None, !.session = None]
        s3 == IF s2.ping_task # NoTask
              THEN [CancelTask(s2, s2.ping_task) EXCEPT !.ping_task = NoTask]
              ELSE s2
    IN  Emit(s3, Event("disconnected", None))

\* DeckLinkServer._start_ping_loop: asyncio.create_task(ping_loop())
FreeTasks(s) == {t \in TaskIds : s.tasks[t].pc = "none"}

StartPingLoop(s) ==
    IF FreeTasks(s) = {}
    THEN [s EXCEPT !.overflow = TRUE]
    ELSE LET t == CHOOSE x \in FreeTasks(s) : \A y \in FreeTasks(s) : x <= y
         IN  [s EXCEPT !.tasks[t] = [pc |-> "start", rem |-> 0, ws |-> NoWs],
                       !.ping_task = t]

\* ------------------------------------------------------- message handlers
\* In every handler: s the server, message the decoded frame, websocket the
\* connection it arrived on, suspend whether an awaited send with code after
\* it yields.

\* A responder that puts the secret in its CHALLENGE_RESPONSE (what the
\* property of the secret rules out)
HandleConnectionRequestTelling(s, message, websocket, passphrase) ==
    IF s.state = CONNECTED
    THEN IF CanSend(websocket)
         THEN Send(s, websocket,
                   error(FreshId, "Already connected to another peer", "ALREADY_CONNECTED"))
         ELSE Raise(s, "closed")
    ELSE LET s1 == [s EXCEPT !.session =
                      [session_id |-> message.session_id,
                       passphrase |-> passphrase,
                       peer_info  |-> [name      |-> message.payload.sender_name,
                                       ip        |-> message.payload.sender_ip,
                                       websocket |-> websocket]]]
             s2 == SetState(s1, CHALLENGE_SENT)
             s3 == Emit(s2, Event("challenge_generated",
                                  [session_id |-> message.session_id,
                                   passphrase |-> passphrase,
                                   peer_name  |-> message.payload.sender_name]))
         IN  IF CanSend(websocket)
             THEN Send(s3, websocket,
                       [challenge_response(message.session_id, s.name)
                            EXCEPT !.payload.message = passphrase])
             ELSE Raise(s3, "closed")

\* DeckLinkServer._handle_connection_request; passphrase is what
\* generate_passphrase() returns.
HandleConnectionRequest(s, message, websocket, passphrase) ==
    IF s.state = CONNECTED
    THEN IF CanSend(websocket)
         THEN Send(s, websocket,
                   error(FreshId, "Already connected to another peer", "ALREADY_CONNECTED"))
         ELSE Raise(s, "closed")
    ELSE LET s1 == [s EXCEPT !.session =
                      [session_id |-> message.session_id,
                       passphrase |-> passphrase,
                       peer_info  |-> [name      |-> message.payload.sender_name,
                                       ip        |-> message.payload.sender_ip,
                                       websocket |-> websocket]]]
             s2 == SetState(s1, CHALLENGE_SENT)
             s3 == Emit(s2, Event("challenge_generated",
                                  [session_id |-> message.session_id,
                                   passphrase |-> passphrase,
                                   peer_name  |-> message.payload.sender_name]))
         IN  IF CanSend(websocket)
             THEN Send(s3, websocket, challenge_response(message.session_id, s.name))
             ELSE Raise(s3, "closed")

\* A handler that takes a CHALLENGE_RESPONSE in whatever state it is
HandleChallengeResponseAnyState(s, message) ==
    Emit(SetState(s, AWAITING_AUTH_INPUT),
         Event("passphrase_required",
               [session_id |-> message.session_id,
                peer_name  |-> message.payload.receiver_name]))

\* DeckLinkServer._handle_challenge_response
HandleChallengeResponse(s, message) ==
    IF s.state # AWAITING_CHALLENGE
    THEN s
    ELSE Emit(SetState(s, AWAITING_AUTH_INPUT),
              Event("passphrase_required",
                    [session_id |-> message.session_id,
                     peer_name  |-> message.payload.receiver_name]))

\* The connected event of _handle_auth_attempt and _handle_auth_result
ConnectedEvent(s) ==
    Event("connected",
          [peer_name |-> IF s.peer # None THEN s.peer.name ELSE "Unknown",
           peer_ip   |-> IF s.peer # None THEN s.peer.ip ELSE ""])

\* A success branch that forgets the heartbeat
AuthAttemptOkRestSilent(s) == Emit(s, ConnectedEvent(s))

\* _handle_auth_attempt after the send of AUTH_RESULT(success=True)
AuthAttemptOkRest(s) == StartPingLoop(Emit(s, ConnectedEvent(s)))

\* A failure branch that leaves the Session in place
AuthAttemptFailRestKeeping(s) ==
    LET s1 == Emit(s, Event("auth_failed", [reason |-> "Incorrect passphrase"]))
    IN  SetState(s1, DISCONNECTED)

\* _handle_auth_attempt after the send of AUTH_RESULT(success=False)
AuthAttemptFailRest(s) ==
    LET s1 == Emit(s, Event("auth_failed", [reason |-> "Incorrect passphrase"]))
        s2 == SetState(s1, DISCONNECTED)
    IN  [s2 EXCEPT !.session = None]

\* DeckLinkServer._handle_auth_attempt
HandleAuthAttempt(s, message, websocket, suspend) ==
    IF s.session = None
    THEN IF CanSend(websocket)
         THEN Send(s, websocket, error(FreshId, "No active session", "NO_SESSION"))
         ELSE Raise(s, "closed")
    ELSE IF message.session_id # s.session.session_id
    THEN IF CanSend(websocket)
         THEN Send(s, websocket, error(FreshId, "Invalid session", "INVALID_SESSION"))
         ELSE Raise(s, "closed")
    ELSE IF validate_passphrase(message.payload.passphrase, s.session.passphrase)
    THEN LET s1 == [s EXCEPT !.websocket = websocket, !.peer = s.session.peer_info]
             s2 == SetState(s1, CONNECTED)
             s3 == Send(s2, websocket, auth_result(message.session_id, TRUE, "Connected!"))
         IN  IF ~CanSend(websocket) THEN Raise(s2, "closed")
             ELSE IF suspend THEN [s3 EXCEPT !.rd[websocket].pc = "auth_ok"]
             ELSE AuthAttemptOkRest(s3)
    ELSE LET s1 == Send(s, websocket,
                        auth_result(message.session_id, FALSE, "Incorrect passphrase"))
         IN  IF ~CanSend(websocket) THEN Raise(s, "closed")
             ELSE IF suspend THEN [s1 EXCEPT !.rd[websocket].pc = "auth_fail"]
             ELSE AuthAttemptFailRest(s1)

\* An _handle_auth_result that forgets the heartbeat
HandleAuthResultNoHeartbeat(s, message, websocket) ==
    IF message.payload.success
    THEN LET s1 == SetState([s EXCEPT !.websocket = websocket], CONNECTED)
         IN  Emit(s1, ConnectedEvent(s1))
    ELSE Emit(SetState(s, ERROR),
              Event("auth_failed", [reason |-> message.payload.message]))

\* DeckLinkServer._handle_auth_result
HandleAuthResult(s, message, websocket) ==
    IF message.payload.success
    THEN LET s1 == SetState([s EXCEPT !.websocket = websocket], CONNECTED)
         IN  StartPingLoop(Emit(s1, ConnectedEvent(s1)))
    ELSE Emit(SetState(s, ERROR),
              Event("auth_failed", [reason |-> message.payload.message]))

\* An _handle_ping whose PONG takes the default session_id
HandlePingFresh(s, message, websocket) ==
    IF CanSend(websocket)
    THEN Send(s, websocket, pong(FreshId))
    ELSE Raise(s, "closed")

\* DeckLinkServer._handle_ping
HandlePing(s, message, websocket) ==
    IF CanSend(websocket)
    THEN Send(s, websocket, pong(message.session_id))
    ELSE Raise(s, "closed")

\* DeckLinkServer._handle_pong: self._last_pong = time.time()
HandlePong(s, message) == [s EXCEPT !.pong_age = 0]

\* DeckLinkServer._handle_message
HandleMessage(s, message, websocket, passphrase, suspend) ==
    CASE message.type = "connection_request" ->
             HandleConnectionRequest(s, message, websocket, passphrase)
      [] message.type = "challenge_response" -> HandleChallengeResponse(s, message)
      [] message.type = "auth_attempt" ->
             HandleAuthAttempt(s, message, websocket, suspend)
      [] message.type = "auth_result" -> HandleAuthResult(s, message, websocket)
      [] message.type = "ping" -> HandlePing(s, message, websocket)
      [] message.type = "pong" -> HandlePong(s, message)
      [] message.type = "disconnect" -> HandleDisconnect(s)
      [] message.type = "notification" -> Emit(s, Event("notification", message.payload))
      [] OTHER -> s

\* The except clauses of a reader task, and its end.  _handle_connection
\* ("server"): ConnectionClosed disconnects only when the connection is the
\* active one, any other Exception always; the connection is closed when the
\* handler returns.  _client_listen ("client"): both always disconnect.
ReaderExcept(s, c) ==
    IF s.exc = ""
    THEN s
    ELSE LET role == s.rd[c].role
             s1 == [s EXCEPT !.exc = "",
                             !.rd[c] = DoneReader,
                             !.closes = IF role = "server" THEN @ \cup {c} ELSE @]
         IN  IF role = "server" /\ s.exc = "closed" /\ s.websocket # c
             THEN s1
             ELSE HandleDisconnect(s1)

\* One frame read by a reader task: decode, _handle_message, except clauses.
ReadFrame(s, c, frame, passphrase, suspend) ==
    ReaderExcept(IF frame = Malformed
                 THEN Raise(s, "error")
                 ELSE HandleMessage(s, frame, c, passphrase, suspend),
                 c)

\* A reader resumes from the send it was suspended in (_handle_auth_attempt).
ReadResume(s, c) ==
    ReaderExcept(IF ~CanSend(c)
                 THEN Raise([s EXCEPT !.rd[c].pc = "idle"], "closed")
                 ELSE IF s.rd[c].pc = "auth_ok"
                 THEN AuthAttemptOkRest([s EXCEPT !.rd[c].pc = "idle"])
                 ELSE AuthAttemptFailRest([s EXCEPT !.rd[c].pc = "idle"]),
                 c)

\* Iteration over the connection ends: with a close frame the loop is left
\* normally, a lost connection raises ConnectionClosed.
ReadClosed(s, c) ==
    IF chan[c].status = "closed_err"
    THEN ReaderExcept(Raise(s, "closed"), c)
    ELSE [s EXCEPT !.rd[c] = DoneReader]

\* ------------------------------------------------------------- heartbeat
\* ping_loop's except clause: _handle_disconnect(), break
PingExcept(s, t) == [HandleDisconnect(s) EXCEPT !.tasks[t] = NoPing]

\* ping_loop from the while condition to its first await
PingLoopHead(s, t, suspend) ==
    IF s.state = CONNECTED /\ s.websocket # NoWs
    THEN LET s1 == [s EXCEPT !.pong_age = 0]
         IN  IF ~CanSend(s.websocket)
             THEN PingExcept(s1, t)
             ELSE IF suspend
             THEN [Send(s1, s.websocket, ping(FreshId)) EXCEPT
                       !.tasks[t] = [pc |-> "send", rem |-> 0, ws |-> s.websocket]]
             ELSE [Send(s1, s.websocket, ping(FreshId)) EXCEPT
                       !.tasks[t] = [pc |-> "sleep", rem |-> PingInterval, ws |-> NoWs]]
    ELSE [s EXCEPT !.tasks[t] = NoPing]

\* ping_loop after asyncio.sleep(5): the timeout check, then the loop again
PingCheck(s, t, suspend) ==
    IF s.pong_age > PingTimeout
    THEN [HandleDisconnect(s) EXCEPT !.tasks[t] = NoPing]
    ELSE PingLoopHead(s, t, suspend)

\* One run of heartbeat task t, from where it was suspended to its next await
PingRun(s, t, suspend) ==
    CASE s.tasks[t].pc = "start" -> PingLoopHead(s, t, suspend)
      [] s.tasks[t].pc = "send" ->
             IF CanSend(s.tasks[t].ws)
             THEN [s EXCEPT
                       !.tasks[t] = [pc |-> "sleep", rem |-> PingInterval, ws |-> NoWs]]
             ELSE PingExcept(s, t)
      [] s.tasks[t].pc = "sleep" -> PingCheck(s, t, suspend)

PingRunnable(s, t) ==
    \/ s.tasks[t].pc \in {"start", "send"}
    \/ s.tasks[t].pc = "sleep" /\ s.tasks[t].rem = 0

\* Time passes by d in a process: the sleeps and the age of _last_pong
Elapse(s, d) ==
    [s EXCEPT !.pong_age = IF @ + d > PingTimeout THEN PingTimeout + 1 ELSE @ + d,
              !.tasks = [t \in TaskIds |->
                           IF @[t].pc = "sleep"
                           THEN [@[t] EXCEPT !.rem = IF @ > d THEN @ - d ELSE 0]
                           ELSE @[t]]]

\* A connect_to without its guard
ConnectToAnyState(s, host) ==
    [SetState(s, AWAITING_CHALLENGE) EXCEPT
         !.cmd = [pc |-> "dial", ws |-> NoWs, sid |-> "", host |-> host]]

\* ---------------------------------------------------------------- commands
\* DeckLinkServer.connect_to up to "await connect(uri)"
ConnectTo(s, host) ==
    IF s.state # DISCONNECTED
    THEN s
    ELSE [SetState(s, AWAITING_CHALLENGE) EXCEPT
              !.cmd = [pc |-> "dial", ws |-> NoWs, sid |-> "", host |-> host]]

\* connect_to's except clause
ConnectExcept(s) ==
    LET s1 == SetState([s EXCEPT !.cmd = IdleCmd], ERROR)
    IN  Emit(s1, Event("connection_error", [error |-> "connection failed"]))

\* A connect_to that forgets to store the Session
ConnectRestNoSession(s, websocket, session_id) ==
    [s EXCEPT !.rd[websocket] = [pc |-> "idle", role |-> "client"],
              !.cmd = IdleCmd]

\* connect_to after the send of the CONNECTION_REQUEST
ConnectRest(s, websocket, session_id) ==
    [s EXCEPT !.session = [session_id |-> session_id,
                           passphrase |-> "",
                           peer_info  |-> s.peer],
              !.rd[websocket] = [pc |-> "idle", role |-> "client"],
              !.cmd = IdleCmd]

\* connect_to when connect(uri) returns websocket (NoWs: it raised), with u
\* the session_id of the request
ConnectDialed(s, websocket, u, suspend) ==
    IF websocket = NoWs
    THEN ConnectExcept(s)
    ELSE LET s1 == [s EXCEPT !.peer = [name      |-> "",
                                              ip        |-> s.cmd.host,
                                              websocket |-> websocket]]
             s2 == Send(s1, websocket, connection_request(u, s.name, ""))
         IN  IF suspend
             THEN [s2 EXCEPT !.cmd.pc = "conn_sent", !.cmd.ws = websocket, !.cmd.sid = u]
             ELSE ConnectRest(s2, websocket, u)

\* connect_to resumes from the send of the CONNECTION_REQUEST
ConnectResume(s) ==
    IF CanSend(s.cmd.ws)
    THEN ConnectRest(s, s.cmd.ws, s.cmd.sid)
    ELSE ConnectExcept(s)

\* A submit_passphrase that does not look at the state
SubmitPassphraseAnyState(s, passphrase) ==
    IF s.session = None \/ s.peer = None
    THEN s
    ELSE IF s.peer.websocket = NoWs \/ ~CanSend(s.peer.websocket)
    THEN s
    ELSE Send(s, s.peer.websocket,
              auth_attempt(s.session.session_id, passphrase))

\* DeckLinkServer.submit_passphrase; an exception of the send is the caller's
SubmitPassphrase(s, passphrase) ==
    IF s.state # AWAITING_AUTH_INPUT
    THEN s
    ELSE IF s.session = None \/ s.peer = None
    THEN s
    ELSE IF s.peer.websocket = NoWs \/ ~CanSend(s.peer.websocket)
    THEN s
    ELSE Send(s, s.peer.websocket,
              auth_attempt(s.session.session_id, passphrase))

\* disconnect_peer: "await self._websocket.close()", then what follows
DisconnectClose(s, suspend) ==
    IF s.websocket = NoWs
    THEN [HandleDisconnect(s) EXCEPT !.cmd = IdleCmd]       \* AttributeError, pass
    ELSE LET s1 == [s EXCEPT !.closes = @ \cup {s.websocket}]
         IN  IF suspend
             THEN [s1 EXCEPT !.cmd.pc = "disc_closing"]
             ELSE [HandleDisconnect(s1) EXCEPT !.cmd = IdleCmd]

\* DeckLinkServer.disconnect_peer up to its first await that yields
DisconnectPeer(s, suspend1, suspend2) ==
    IF s.websocket = NoWs
    THEN HandleDisconnect(s)
    ELSE IF ~CanSend(s.websocket)
    THEN HandleDisconnect(s)                         \* except: pass
    ELSE LET s1 == Send(s, s.websocket, disconnect(FreshId))
         IN  IF suspend1
             THEN [s1 EXCEPT !.cmd.pc = "disc_sent", !.cmd.ws = s.websocket]
             ELSE DisconnectClose(s1, suspend2)

\* disconnect_peer resumes from its send or from its close
DisconnectResume(s, suspend) ==
    IF s.cmd.pc = "disc_sent"
    THEN IF CanSend(s.cmd.ws)
         THEN DisconnectClose(s, suspend)
         ELSE [HandleDisconnect(s) EXCEPT !.cmd = IdleCmd]
    ELSE [HandleDisconnect(s) EXCEPT !.cmd = IdleCmd]

\* DeckLinkServer.send_notification
SendNotification(s) ==
    IF s.state # CONNECTED \/ s.websocket = NoWs
    THEN s
    ELSE IF ~CanSend(s.websocket)
    THEN s
    ELSE Send(s, s.websocket, notification(FreshId, "title", "body"))

\* DeckLinkServer.get_status, as it is rendered for the UI (None is null);
\* device_type and port never change and are left out.
get_status(s) ==
    [state       |-> s.state,
     device_name |-> s.name,
     peer        |-> IF s.peer # None
                     THEN [name |-> s.peer.name, ip |-> s.peer.ip]
                     ELSE None,
     session_id  |-> IF s.session # None THEN s.session.session_id ELSE "null"]

\* ------------------------------------------------------------ environment
\* The frames a remote peer can put on a connection: every message of the
\* protocol, a message type no handler is written for, and an undecodable one.
Frames ==
    {connection_request(u, n, h) : u \in SessionIds, n \in {"B"}, h \in Hosts}
    \cup {challenge_response(u, "B") : u \in SessionIds}
    \cup {auth_attempt(u, pw) : u \in SessionIds, pw \in Passphrases}
    \cup {auth_result(u, TRUE, "Connected!") : u \in SessionIds}
    \cup {auth_result(u, FALSE, "Incorrect passphrase") : u \in SessionIds}
    \cup {ping(u) : u \in SessionIds}
    \cup {pong(FreshId), disconnect(FreshId), notification(FreshId, "title", "body"),
          error(FreshId, "Invalid session", "INVALID_SESSION"),
          [type |-> "file_transfer", session_id |-> FreshId, payload |-> None],
          Malformed}

\* The other end of connection c, seen from process p
Remote(p, c) == IF chan[c].dialer = p THEN chan[c].acceptor ELSE chan[c].dialer

LowestFree == CHOOSE c \in Chan : chan[c].status = "free"
                                  /\ \A d \in Chan : chan[d].status = "free" => c <= d

\* ------------------------------------------------------------------ ghost
\* phase follows one connection: "conn" from the entry to CONNECTED, "disc1"
\* once a local disconnect, a closed transport or the heartbeat has emitted
\* the disconnected event for it and nothing else has happened since.
\* quiet is the time since the connection was entered or a PONG was handled.
CountEvents(evts, name) == Cardinality({i \in 1 .. Len(evts) : evts[i].name = name})

Entered(s2, state) ==
    \E i \in 1 .. Len(s2.evts) :
        s2.evts[i].name = "state_changed" /\ s2.evts[i].data.new_state = state

GhostPhase(g, kind, s, s2) ==
    LET n == CountEvents(s2.evts, "disconnected")
    IN  IF Entered(s2, CONNECTED) THEN "conn"
        ELSE IF g.phase = "conn"
        THEN IF n > 0
             THEN IF kind \in {"disconnect", "closed", "heartbeat"}
                  THEN "disc1" ELSE "idle"
             ELSE IF s2.state = CONNECTED THEN "conn" ELSE "idle"
        ELSE IF g.phase = "disc1" /\ kind = "closed" /\ n = 0
        THEN "disc1"
        ELSE "idle"

\* The state_changed events among evts, in the order they were emitted
IsStateChanged(e) == e.name = "state_changed"

StateChanges(evts) == SelectSeq(evts, IsStateChanged)

\* last is the new value of the last state_changed event the process has
\* emitted, and the state __init__ assigns while it has emitted none.
GhostNext(g, kind, s, s2) ==
    [phase |-> GhostPhase(g, kind, s, s2),
     quiet |-> IF s2.state # CONNECTED THEN PingTimeout + 1
               ELSE IF Entered(s2, CONNECTED) \/ kind = "pong" THEN 0
               ELSE g.quiet,
     last  |-> IF StateChanges(s2.evts) = <<>> THEN g.last
               ELSE StateChanges(s2.evts)[Len(StateChanges(s2.evts))].data.new_state]

\* ----------------------------------------------------------------- actions
\* How a closed connection was closed and whose it was is read by the reader
\* tasks that have yet to find it closed; with none left (p leaving s2), it
\* is not followed.
Unread(p, s2, c) ==
    \A q \in Procs :
        (IF q = p THEN s2 ELSE srv[q]).rd[c].pc \in {"none", "done"}

\* The frames of sent are put on the wire towards q when q is a process
\* (what is sent to the environment is not followed).
RECURSIVE Push(_, _, _)
Push(w, q, sent) ==
    IF sent = <<>> \/ q \notin Procs
    THEN w
    ELSE Push([w EXCEPT ![Head(sent).ws][q] = Append(@, Head(sent).msg)], q, Tail(sent))

\* What process p sent goes to the other end of the connection it used.
RECURSIVE Sent(_, _, _)
Sent(w, p, sent) ==
    IF sent = <<>>
    THEN w
    ELSE Sent(Push(w, Remote(p, Head(sent).ws), <<Head(sent)>>), p, Tail(sent))

\* Process p ran from one await to the next and left s2: its record, the
\* connections it closed, the frames it sent (added to the wire w), the
\* history.
Ran(p, kind, s2, w) ==
    /\ ~s2.overflow
    /\ srv' = [srv EXCEPT ![p] = Strip(s2)]
    /\ chan' = [c \in Chan |->
                  IF chan[c].status = "free" THEN chan[c]
                  ELSE IF chan[c].status = "open" /\ c \notin s2.closes THEN chan[c]
                  ELSE IF Unread(p, s2, c) THEN DeadChan
                  ELSE IF chan[c].status = "open"
                  THEN [chan[c] EXCEPT !.status = "closed_ok"]
                  ELSE chan[c]]
    /\ wire' = [c \in Chan |->
                  IF chan'[c] = DeadChan
                  THEN [q \in Procs |-> <<>>]
                  ELSE Sent(w, p, s2.sent)[c]]
    /\ ghost' = [ghost EXCEPT ![p] = GhostNext(@, kind, srv[p], s2)]

\* The inputs a frame's handler reads beside the frame: what
\* generate_passphrase returns, and whether its send yields.
SecretsFor(frame) ==
    IF frame.type = "connection_request" THEN Secrets ELSE {"p1"}

SuspendsFor(frame, yields) ==
    IF frame.type = "auth_attempt" THEN yields ELSE {FALSE}

\* In the actions, yields is what an awaited send or close with code after
\* it can do: {FALSE} it never yields, BOOLEAN it yields or not.
NoYield  == {FALSE}
MayYield == BOOLEAN

\* A reader task of p takes the next frame of connection c.
Receive(p, c, frame, yields, w) ==
    /\ srv[p].rd[c].pc = "idle"
    /\ \E passphrase \in SecretsFor(frame), suspend \in SuspendsFor(frame, yields) :
          Ran(p, IF frame.type = "pong" THEN "pong" ELSE "frame",
              ReadFrame(srv[p], c, frame, passphrase, suspend), w)

\* A reader task of p resumes from a send.
Resume(p, c) ==
    /\ srv[p].rd[c].pc \in {"auth_ok", "auth_fail"}
    /\ Ran(p, "frame", ReadResume(srv[p], c), wire)

\* A reader task of p finds connection c closed.
Closed(p, c) ==
    /\ srv[p].rd[c].pc = "idle"
    /\ chan[c].status \in {"closed_ok", "closed_err"}
    /\ wire[c][p] = <<>>
    /\ Ran(p, "closed", ReadClosed(srv[p], c), wire)

\* Heartbeat task t of p runs.
Heartbeat(p, t, yields) ==
    /\ PingRunnable(srv[p], t)
    /\ \E suspend \in yields :
          Ran(p, "heartbeat", PingRun(srv[p], t, suspend), wire)

\* Time passes; a sleep that is over wakes up before more time passes.
Tick ==
    /\ \A p \in Procs, t \in TaskIds :
          ~(srv[p].tasks[t].pc = "start"
            \/ (srv[p].tasks[t].pc = "sleep" /\ srv[p].tasks[t].rem = 0))
    /\ srv' = [p \in Procs |-> Elapse(srv[p], PingInterval)]
    /\ ghost' = [p \in Procs |->
                   [ghost[p] EXCEPT !.quiet = IF @ + PingInterval > PingTimeout
                                              THEN PingTimeout + 1
                                              ELSE @ + PingInterval]]
    /\ UNCHANGED <<chan, wire, user, codec>>

\* The local commands of p (one at a time).
CmdConnect(p) ==
    /\ srv[p].cmd.pc = "idle"
    /\ \E host \in Hosts : Ran(p, "connect", ConnectTo(srv[p], host), wire)

CmdConnectFailed(p) ==
    /\ srv[p].cmd.pc = "dial"
    /\ Ran(p, "connect", ConnectDialed(srv[p], NoWs, FreshId, FALSE), wire)

CmdConnectResume(p) ==
    /\ srv[p].cmd.pc = "conn_sent"
    /\ Ran(p, "connect", ConnectResume(srv[p]), wire)

CmdSubmit(p, passphrases) ==
    /\ srv[p].cmd.pc = "idle"
    /\ \E passphrase \in passphrases :
          Ran(p, "submit", SubmitPassphrase(srv[p], passphrase), wire)

CmdDisconnect(p, yields) ==
    /\ srv[p].cmd.pc = "idle"
    /\ \E suspend1 \in yields, suspend2 \in yields :
          Ran(p, "disconnect", DisconnectPeer(srv[p], suspend1, suspend2), wire)

CmdDisconnectResume(p, yields) ==
    /\ srv[p].cmd.pc \in {"disc_sent", "disc_closing"}
    /\ \E suspend \in yields :
          Ran(p, "disconnect", DisconnectResume(srv[p], suspend), wire)

CmdNotify(p) ==
    /\ srv[p].cmd.pc = "idle"
    /\ Ran(p, "notify", SendNotification(srv[p]), wire)

\* connect(uri) returns in p: connection c is open, and at a real peer q the
\* websockets server starts _handle_connection for it.
Dialed(p, q, c, yields) ==
    /\ srv[p].cmd.pc = "dial"
    /\ chan[c].status = "free"
    /\ \E u \in SessionIds, suspend \in yields :
          LET s2 == ConnectDialed(srv[p], c, u, suspend)
          IN  /\ srv' = [r \in Procs |->
                           IF r = p THEN Strip(s2)
                           ELSE IF r = q
                           THEN [srv[r] EXCEPT !.rd[c] = [pc |-> "idle", role |-> "server"]]
                           ELSE srv[r]]
              /\ ghost' = [ghost EXCEPT ![p] = GhostNext(@, "connect", srv[p], s2)]
              /\ wire' = Push(wire, q, s2.sent)
    /\ chan' = [chan EXCEPT ![c] = [status |-> "open", dialer |-> p, acceptor |-> q]]

\* ------------------------------------------- one process and its environment
\* Process "a" alone: every connection's other end is the environment, which
\* connects, sends any frame, closes or loses connections as it likes.  The
\* process is suspended where it has to wait: for a frame, for connect(uri),
\* in asyncio.sleep.
EnvOpen ==
    /\ \E c \in Chan : chan[c].status = "free"
    /\ chan' = [chan EXCEPT ![LowestFree] =
                   [status |-> "open", dialer |-> "env", acceptor |-> "a"]]
    /\ srv' = [srv EXCEPT !["a"].rd[LowestFree] = [pc |-> "idle", role |-> "server"]]
    /\ UNCHANGED <<wire, user, ghost, codec>>

EnvClose ==
    \E c \in Chan, how \in {"closed_ok", "closed_err"} :
        /\ chan[c].status = "open"
        /\ chan' = [chan EXCEPT ![c] =
                       IF Unread("a", srv["a"], c) THEN DeadChan
                       ELSE [@ EXCEPT !.status = how]]
        /\ UNCHANGED <<srv, wire, user, ghost, codec>>

EnvFrame ==
    \E c \in Chan, frame \in Frames :
        Receive("a", c, frame, NoYield, wire) /\ UNCHANGED <<user, codec>>

EnvDialed ==
    /\ \E c \in Chan : chan[c].status = "free"
    /\ Dialed("a", "env", LowestFree, NoYield)
    /\ UNCHANGED <<user, codec>>

\* No Message is being encoded.
NoCodec == [pc |-> "none"]

NoPlan == [script |-> <<>>, pos |-> 0]

InitProgram ==
    /\ srv = [p \in Procs |-> InitServer(p)]
    /\ chan = [c \in Chan |-> FreeChan]
    /\ wire = [c \in Chan |-> [p \in Procs |-> <<>>]]

Init ==
    /\ InitProgram
    /\ user = NoPlan
    /\ ghost = [p \in Procs |-> [phase |-> "idle", quiet |-> PingTimeout + 1,
                                  last |-> DISCONNECTED]]
    /\ codec = NoCodec

Next ==
    \/ EnvOpen
    \/ EnvClose
    \/ EnvFrame
    \/ EnvDialed
    \/ \E c \in Chan : Closed("a", c) /\ UNCHANGED <<user, codec>>
    \/ \E t \in TaskIds : Heartbeat("a", t, NoYield) /\ UNCHANGED <<user, codec>>
    \/ Tick
    \/ CmdConnect("a") /\ UNCHANGED <<user, codec>>
    \/ CmdConnectFailed("a") /\ UNCHANGED <<user, codec>>
    \/ CmdSubmit("a", Passphrases) /\ UNCHANGED <<user, codec>>
    \/ CmdDisconnect("a", NoYield) /\ UNCHANGED <<user, codec>>
    \/ CmdNotify("a") /\ UNCHANGED <<user, codec>>

Spec == Init /\ [][Next]_vars


\* ------------------------------------------------ two processes and a user
\* Processes "a" and "b" run the same program; "a" dials "b".  The user of
\* "a" carries out a plan of commands chosen at the start, one command when
\* the last one has returned and nothing is in flight; "right" types the
\* passphrase that "b" displays, "wrong" another one.  Frames are delivered
\* in order and within one heartbeat interval.
MaxScript == 4

Commands == {"connect", "right", "wrong", "disconnect"}

Scripts == UNION {[1 .. n -> Commands] : n \in 0 .. MaxScript}

Displayed(q) == IF srv[q].session = None THEN "" ELSE srv[q].session.passphrase

InFlight == \E c \in Chan, p \in Procs : wire[c][p] # <<>>

PairInit ==
    /\ InitProgram
    /\ user \in {[script |-> sc, pos |-> 0] : sc \in Scripts}
    /\ ghost = [p \in Procs |-> [phase |-> "idle", quiet |-> PingTimeout + 1,
                                  last |-> DISCONNECTED]]
    /\ codec = NoCodec

PlanDone == user.pos = Len(user.script)

UserCommand ==
    /\ ~PlanDone
    /\ ~InFlight
    /\ \A p \in Procs : srv[p].cmd.pc = "idle"
    /\ user' = [user EXCEPT !.pos = @ + 1]
    /\ UNCHANGED codec
    /\ LET command == user.script[user.pos + 1]
       IN  CASE command = "connect"    -> CmdConnect("a")
             [] command = "right"      -> CmdSubmit("a", {Displayed("b")})
             [] command = "wrong"      -> CmdSubmit("a", Passphrases \ {Displayed("b")})
             [] command = "disconnect" -> CmdDisconnect("a", NoYield)

PairDialed ==
    /\ \E c \in Chan : chan[c].status = "free"
    /\ Dialed("a", "b", LowestFree, NoYield)
    /\ UNCHANGED <<user, codec>>

PairReceive ==
    \E p \in Procs, c \in Chan :
        /\ wire[c][p] # <<>>
        /\ Receive(p, c, Head(wire[c][p]), NoYield,
                   [wire EXCEPT ![c][p] = Tail(@)])
        /\ UNCHANGED <<user, codec>>

PairClosed == \E p \in Procs, c \in Chan : Closed(p, c) /\ UNCHANGED <<user, codec>>

PairHeartbeat ==
    \E p \in Procs, t \in TaskIds : Heartbeat(p, t, NoYield) /\ UNCHANGED <<user, codec>>

PairTick == ~InFlight /\ Tick

PairNext ==
    \/ UserCommand
    \/ PairDialed
    \/ PairReceive
    \/ PairClosed
    \/ PairHeartbeat
    \/ PairTick

PairSpec == PairInit /\ [][PairNext]_vars

\* ----------------------------------- one process, its awaits interleaved
\* Process "a" and its environment as in Spec, with every awaited send or
\* close that has code after it free to yield to the event loop: the reader
\* tasks, the heartbeat task and the command task then interleave at these
\* awaits.  No time passes (a heartbeat task runs up to its sleep), the peer
\* uses one session id, and one connection is open at a time.
ConcFrames == {frame \in Frames : frame.session_id \in {"s1", FreshId, ""}}

NoneOpen == \A c \in Chan : chan[c].status # "open"

ConcOpen == NoneOpen /\ EnvOpen

ConcFrame ==
    \E c \in Chan, frame \in ConcFrames :
        Receive("a", c, frame, MayYield, wire) /\ UNCHANGED <<user, codec>>

ConcDialed ==
    /\ NoneOpen
    /\ \E c \in Chan : chan[c].status = "free"
    /\ Dialed("a", "env", LowestFree, MayYield)
    /\ UNCHANGED <<user, codec>>

ConcNext ==
    \/ ConcOpen
    \/ EnvClose
    \/ ConcFrame
    \/ ConcDialed
    \/ \E c \in Chan : Resume("a", c) /\ UNCHANGED <<user, codec>>
    \/ \E c \in Chan : Closed("a", c) /\ UNCHANGED <<user, codec>>
    \/ \E t \in TaskIds : Heartbeat("a", t, MayYield) /\ UNCHANGED <<user, codec>>
    \/ CmdConnect("a") /\ UNCHANGED <<user, codec>>
    \/ CmdConnectFailed("a") /\ UNCHANGED <<user, codec>>
    \/ CmdConnectResume("a") /\ UNCHANGED <<user, codec>>
    \/ CmdSubmit("a", Passphrases) /\ UNCHANGED <<user, codec>>
    \/ CmdDisconnect("a", MayYield) /\ UNCHANGED <<user, codec>>
    \/ CmdDisconnectResume("a", MayYield) /\ UNCHANGED <<user, codec>>
    \/ CmdNotify("a") /\ UNCHANGED <<user, codec>>

ConcSpec == Init /\ [][ConcNext]_vars

\* ------------------------------------------------------------------ codec
\* Message.to_bytes / from_bytes and Message.to_json / from_json.  A Python
\* value carries its type as the name of its single field, and so does a
\* value of either encoding: what a decoder returns is decided by the type
\* the encoder wrote, not by the value that was encoded.  A float is written
\* in tenths ([float |-> 15] is 1.5); integers are within 64 bits.
MessageType ==
    {"connection_request", "challenge_response", "auth_attempt", "auth_result",
     "ping", "pong", "disconnect", "file_transfer", "keyboard_input",
     "controller_input", "audio_stream", "notification", "error"}

\* The payload fields the factory of a message type fills in.
PayloadFields(type) ==
    CASE type = "connection_request" -> {"sender_name", "sender_ip", "sender_port"}
      [] type = "challenge_response" -> {"receiver_name", "message"}
      [] type = "auth_attempt"       -> {"passphrase"}
      [] type = "auth_result"        -> {"success", "message"}
      [] type = "disconnect"         -> {"reason"}
      [] type = "error"              -> {"message", "code"}
      [] type = "notification"       -> {"title", "body", "icon"}
      [] OTHER                       -> {}

\* payload: dict[str, Any], over the types of value the factories store.
PayloadValues ==
    {[str |-> ""], [str |-> "x"], [int |-> 0], [int |-> 8080],
     [bool |-> TRUE], [bool |-> FALSE], [float |-> 15], None}

Timestamps == {[float |-> 0], [float |-> 17000015]}

PayloadsOf(type) ==
    UNION {[fields -> PayloadValues] : fields \in SUBSET PayloadFields(type)}

\* class Message: the instances the round trip is checked on.
Messages ==
    UNION {{[type       |-> [enum |-> type],
             session_id |-> [str |-> session_id],
             timestamp  |-> timestamp,
             payload    |-> [dict |-> payload]] :
                session_id \in {"", "s1"}, timestamp \in Timestamps,
                payload \in PayloadsOf(type)} : type \in MessageType}

ValidationError == [raised |-> "ValidationError"]

\* Message(**fields): pydantic validates each field against its annotation
\* (lax mode: a str becomes the enum member of that value, bytes become a
\* str, an int becomes a float).
Message(fields) ==
    LET type == fields.type
        session_id == fields.session_id
        timestamp == fields.timestamp
        payload == fields.payload
        type_ok ==
            \/ "enum" \in DOMAIN type
            \/ "str" \in DOMAIN type /\ type.str \in MessageType
        session_id_ok == DOMAIN session_id \subseteq {"str", "bytes"}
        timestamp_ok == DOMAIN timestamp \subseteq {"float", "int"}
        payload_ok == "dict" \in DOMAIN payload
    IN  IF ~(type_ok /\ session_id_ok /\ timestamp_ok /\ payload_ok)
        THEN ValidationError
        ELSE [type       |-> IF "enum" \in DOMAIN type THEN type
                             ELSE [enum |-> type.str],
              session_id |-> IF "str" \in DOMAIN session_id THEN session_id
                             ELSE [str |-> session_id.bytes],
              timestamp  |-> IF "float" \in DOMAIN timestamp THEN timestamp
                             ELSE [float |-> 10 * timestamp.int],
              payload    |-> payload]

\* self.model_dump(): the dict of the four fields, values as they are.
model_dump(m) == [dict |-> m]

\* msgpack.packb(o, use_bin_type=True).  MessageType is a str subclass, so
\* a member is packed as the str of its value.
RECURSIVE packb(_)
packb(o) ==
    CASE "none"  \in DOMAIN o -> [nil |-> TRUE]
      [] "bool"  \in DOMAIN o -> [mbool |-> o.bool]
      [] "int"   \in DOMAIN o -> [mint |-> o.int]
      [] "float" \in DOMAIN o -> [mfloat |-> o.float]
      [] "str"   \in DOMAIN o -> [mstr |-> o.str]
      [] "enum"  \in DOMAIN o -> [mstr |-> o.enum]
      [] "bytes" \in DOMAIN o -> [mbin |-> o.bytes]
      [] "dict"  \in DOMAIN o -> [mmap |-> [k \in DOMAIN o.dict |-> packb(o.dict[k])]]

\* What raw=True would make of a msgpack str: bytes.
unpack_strRaw(b) == [bytes |-> b.mstr]

\* raw=False: a msgpack str is decoded to a str.
unpack_str(b) == [str |-> b.mstr]

\* msgpack.unpackb(data, raw=False)
RECURSIVE unpackb(_)
unpackb(b) ==
    CASE "nil"    \in DOMAIN b -> None
      [] "mbool"  \in DOMAIN b -> [bool |-> b.mbool]
      [] "mint"   \in DOMAIN b -> [int |-> b.mint]
      [] "mfloat" \in DOMAIN b -> [float |-> b.mfloat]
      [] "mstr"   \in DOMAIN b -> unpack_str(b)
      [] "mbin"   \in DOMAIN b -> [bytes |-> b.mbin]
      [] "mmap"   \in DOMAIN b -> [dict |-> [k \in DOMAIN b.mmap |-> unpackb(b.mmap[k])]]

to_bytes(m) == packb(model_dump(m))

from_bytes(data) == Message(unpackb(data).dict)

\* self.model_dump_json(): a float is written with a fraction part, an int
\* without one.
RECURSIVE dump_json(_)
dump_json(o) ==
    CASE "none"  \in DOMAIN o -> [jnull |-> TRUE]
      [] "bool"  \in DOMAIN o -> [jbool |-> o.bool]
      [] "int"   \in DOMAIN o -> [jnum |-> o.int, frac |-> FALSE]
      [] "float" \in DOMAIN o -> [jnum |-> o.float, frac |-> TRUE]
      [] "str"   \in DOMAIN o -> [jstr |-> o.str]
      [] "enum"  \in DOMAIN o -> [jstr |-> o.enum]
      [] "bytes" \in DOMAIN o -> [jstr |-> o.bytes]
      [] "dict"  \in DOMAIN o -> [jobj |-> [k \in DOMAIN o.dict |-> dump_json(o.dict[k])]]

\* The JSON parser of model_validate_json: a number without a fraction part
\* is an int, one with a fraction part a float.
RECURSIVE load_json(_)
load_json(j) ==
    CASE "jnull" \in DOMAIN j -> None
      [] "jbool" \in DOMAIN j -> [bool |-> j.jbool]
      [] "jnum"  \in DOMAIN j -> IF j.frac THEN [float |-> j.jnum]
                                 ELSE [int |-> j.jnum]
      [] "jstr"  \in DOMAIN j -> [str |-> j.jstr]
      [] "jobj"  \in DOMAIN j -> [dict |-> [k \in DOMAIN j.jobj |-> load_json(j.jobj[k])]]

to_json(m) == dump_json(model_dump(m))

from_json(data) == Message(load_json(data).dict)

\* One Message is made, encoded and decoded in the binary representation,
\* then encoded and decoded in the text representation.
CodecInit ==
    /\ InitProgram
    /\ user = NoPlan
    /\ ghost = [p \in Procs |-> [phase |-> "idle", quiet |-> PingTimeout + 1,
                                  last |-> DISCONNECTED]]
    /\ codec \in {[pc |-> "made", m |-> m, data |-> None,
                   binary |-> None, text |-> None] : m \in Messages}

ToBytes ==
    /\ codec.pc = "made"
    /\ codec' = [codec EXCEPT !.pc = "to_bytes", !.data = to_bytes(codec.m)]
    /\ UNCHANGED <<srv, chan, wire, user, ghost>>

FromBytes ==
    /\ codec.pc = "to_bytes"
    /\ codec' = [codec EXCEPT !.pc = "from_bytes", !.data = None,
                              !.binary = from_bytes(codec.data)]
    /\ UNCHANGED <<srv, chan, wire, user, ghost>>

ToJson ==
    /\ codec.pc = "from_bytes"
    /\ codec' = [codec EXCEPT !.pc = "to_json", !.data = to_json(codec.m)]
    /\ UNCHANGED <<srv, chan, wire, user, ghost>>

FromJson ==
    /\ codec.pc = "to_json"
    /\ codec' = [codec EXCEPT !.pc = "from_json", !.data = None,
                              !.text = from_json(codec.data)]
    /\ UNCHANGED <<srv, chan, wire, user, ghost>>

CodecNext == ToBytes \/ FromBytes \/ ToJson \/ FromJson

CodecSpec == CodecInit /\ [][CodecNext]_vars

\* -------------------------------------------------------------- properties
\* The properties of a handler are stated on what it returns when it is run
\* in a reachable state of process "a": the record it leaves, the frames it
\* sent, the events it emitted.
Listening(c) == srv["a"].rd[c].pc = "idle"

OnFrame(c, frame, passphrase) == ReadFrame(srv["a"], c, frame, passphrase, FALSE)

FramesOf(type) == {frame \in Frames : frame.type = type}

RepliedError(s2, c, code) ==
    \E i \in 1 .. Len(s2.sent) :
        /\ s2.sent[i].ws = c
        /\ s2.sent[i].msg.type = "error"
        /\ s2.sent[i].msg.payload.code = code

\* C1: in every state other than DISCONNECTED, handling an inbound
\* CONNECTION_REQUEST sends ERROR ALREADY_CONNECTED on the requesting channel
\* and leaves state, Session and Peer unchanged, with no challenge_generated
\* event.
C1_AtMostOneConnection ==
    \A c \in Chan, frame \in FramesOf("connection_request"), passphrase \in Secrets :
        (Listening(c) /\ chan[c].status = "open" /\ srv["a"].state # DISCONNECTED) =>
            LET s2 == OnFrame(c, frame, passphrase)
            IN  /\ RepliedError(s2, c, "ALREADY_CONNECTED")
                /\ s2.state = srv["a"].state
                /\ s2.session = srv["a"].session
                /\ s2.peer = srv["a"].peer
                /\ CountEvents(s2.evts, "challenge_generated") = 0

\* C2: in every state other than AWAITING_AUTH_INPUT, an inbound AUTH_RESULT
\* (success true or false) leaves state unchanged, emits neither connected
\* nor auth_failed, and starts no heartbeat.
C2_AuthResultOnlyWhenAwaited ==
    \A c \in Chan, frame \in FramesOf("auth_result") :
        (Listening(c) /\ srv["a"].state # AWAITING_AUTH_INPUT) =>
            LET s2 == OnFrame(c, frame, "p1")
            IN  /\ s2.state = srv["a"].state
                /\ CountEvents(s2.evts, "connected") = 0
                /\ CountEvents(s2.evts, "auth_failed") = 0
                /\ s2.tasks = srv["a"].tasks
                /\ ~s2.overflow

\* C3: while a Session is held, an inbound AUTH_ATTEMPT or CHALLENGE_RESPONSE
\* whose session_id differs from the held Session's never changes state,
\* Session or Peer, and is answered with ERROR INVALID_SESSION.
C3_SessionIsolation ==
    \A c \in Chan, frame \in FramesOf("auth_attempt") \cup FramesOf("challenge_response") :
        (/\ Listening(c) /\ chan[c].status = "open"
         /\ srv["a"].session # None
         /\ frame.session_id # srv["a"].session.session_id) =>
            LET s2 == OnFrame(c, frame, "p1")
            IN  /\ s2.state = srv["a"].state
                /\ s2.session = srv["a"].session
                /\ s2.peer = srv["a"].peer
                /\ RepliedError(s2, c, "INVALID_SESSION")

\* What the operations of process "a" that can run in this state return:
\* a reader task handling any frame, a reader task finding its connection
\* closed, a heartbeat task, a local command.
StepResults ==
    {OnFrame(c, frame, passphrase) :
         c \in {d \in Chan : Listening(d)}, frame \in Frames, passphrase \in Secrets}
    \cup {ReadClosed(srv["a"], c) :
              c \in {d \in Chan : Listening(d) /\ chan[d].status # "open"}}
    \cup {PingRun(srv["a"], t, FALSE) :
              t \in {u \in TaskIds : PingRunnable(srv["a"], u)}}
    \cup (IF srv["a"].cmd.pc = "idle"
          THEN {ConnectTo(srv["a"], host) : host \in Hosts}
               \cup {SubmitPassphrase(srv["a"], passphrase) : passphrase \in Passphrases}
               \cup {DisconnectPeer(srv["a"], FALSE, FALSE), SendNotification(srv["a"])}
          ELSE {})
    \cup (IF srv["a"].cmd.pc = "dial"
          THEN {ConnectDialed(srv["a"], c, u, FALSE) :
                    c \in {d \in Chan : chan[d].status = "free"} \cup {NoWs},
                    u \in SessionIds}
          ELSE {})

\* The secrets s holds as a responder
HeldSecrets(s) ==
    IF s.session = None THEN {} ELSE {s.session.passphrase} \cap Secrets

\* The secrets an operation that returns s2 could give away: the one held
\* before it, the one held after it, the ones it generated.
StepSecrets(s2) ==
    HeldSecrets(srv["a"]) \cup HeldSecrets(s2)
    \cup {s2.evts[i].data.passphrase :
              i \in {j \in 1 .. Len(s2.evts) : s2.evts[j].name = "challenge_generated"}}

\* Message m carries string x in one of its fields
Mentions(m, x) ==
    \/ m.session_id = x
    \/ CASE m.type = "connection_request" ->
                m.payload.sender_name = x \/ m.payload.sender_ip = x
         [] m.type = "challenge_response" ->
                m.payload.receiver_name = x \/ m.payload.message = x
         [] m.type = "auth_attempt" -> m.payload.passphrase = x
         [] m.type = "auth_result" -> m.payload.message = x
         [] m.type = "disconnect" -> m.payload.reason = x
         [] m.type = "error" -> m.payload.message = x \/ m.payload.code = x
         [] m.type = "notification" -> m.payload.title = x \/ m.payload.body = x
         [] OTHER -> FALSE

ResponderTypes ==
    {"challenge_response", "auth_result", "error", "pong", "ping", "disconnect",
     "notification"}

\* C4: whatever operation runs, in whatever reachable state, no
\* CHALLENGE_RESPONSE, AUTH_RESULT, ERROR, PONG, PING, DISCONNECT or
\* NOTIFICATION it sends carries a secret that the process holds for its
\* Session before or after the operation or generates in it; of the events,
\* only challenge_generated has a passphrase.
C4_SecretNotTransmitted ==
    \A s2 \in StepResults :
        /\ \A i \in 1 .. Len(s2.sent) :
              s2.sent[i].msg.type \in ResponderTypes =>
                  \A x \in StepSecrets(s2) : ~Mentions(s2.sent[i].msg, x)
        /\ \A i \in 1 .. Len(s2.evts) :
              s2.evts[i].name # "challenge_generated" =>
                  "passphrase" \notin DOMAIN s2.evts[i].data

\* C4 witness: the responder has generated a secret for a Session (it has
\* sent the CHALLENGE_RESPONSE), holds it in CHALLENGE_SENT, and an operation
\* that can run now sends a frame of a responder.
C4_Witness ==
    /\ srv["a"].state = CHALLENGE_SENT
    /\ HeldSecrets(srv["a"]) # {}
    /\ \E s2 \in StepResults :
          \E i \in 1 .. Len(s2.sent) : s2.sent[i].msg.type \in ResponderTypes

\* C5: when the heartbeat wakes from its sleep after a PING, connected and
\* with its channel open, and no PONG has been handled for more than the
\* timeout window, it sets state to DISCONNECTED and emits disconnected
\* exactly once.
C5_HeartbeatLiveness ==
    \A t \in TaskIds :
        (/\ srv["a"].tasks[t].pc = "sleep" /\ srv["a"].tasks[t].rem = 0
         /\ srv["a"].state = CONNECTED
         /\ srv["a"].websocket # NoWs
         /\ CanSend(srv["a"].websocket)
         /\ ghost["a"].quiet > PingTimeout) =>
            LET s2 == PingRun(srv["a"], t, FALSE)
            IN  /\ s2.state = DISCONNECTED
                /\ CountEvents(s2.evts, "disconnected") = 1

\* C6: once the connection has been disconnected (by the local disconnect
\* command, a closed transport or the heartbeat, disconnected emitted), the
\* local disconnect command called next emits no further disconnected event
\* and leaves state at DISCONNECTED.
C6_IdempotentDisconnect ==
    (ghost["a"].phase = "disc1" /\ srv["a"].cmd.pc = "idle") =>
        LET s2 == DisconnectPeer(srv["a"], FALSE, FALSE)
        IN  /\ srv["a"].state = DISCONNECTED
            /\ s2.state = DISCONNECTED
            /\ CountEvents(s2.evts, "disconnected") = 0

\* C7: a frame that fails to decode, on any channel, leaves state, Session,
\* Peer and the heartbeat unchanged, emits no disconnected event, and leaves
\* the reader of the channel reading.
C7_MalformedDropped ==
    \A c \in Chan :
        Listening(c) =>
            LET s2 == OnFrame(c, Malformed, "p1")
            IN  /\ s2.state = srv["a"].state
                /\ s2.session = srv["a"].session
                /\ s2.peer = srv["a"].peer
                /\ s2.websocket = srv["a"].websocket
                /\ s2.ping_task = srv["a"].ping_task
                /\ s2.tasks = srv["a"].tasks
                /\ CountEvents(s2.evts, "disconnected") = 0
                /\ s2.rd[c].pc = "idle"

\* C8: a live heartbeat task implies state = CONNECTED, and at most one
\* heartbeat task is live.
C8_HeartbeatWithinConnection ==
    /\ \A t \in TaskIds :
          srv["a"].tasks[t].pc # "none" => srv["a"].state = CONNECTED
    /\ Cardinality({t \in TaskIds : srv["a"].tasks[t].pc # "none"}) <= 1

\* C9: the machine is never left in AWAITING_CHALLENGE, CHALLENGE_SENT,
\* AWAITING_AUTH_INPUT or CONNECTED with the channel of its Session closed
\* and nothing of the program left to run for it: no reader task on the
\* channel, no heartbeat task, no command under way.
C9_TransportFailureNeverHangs ==
    \A c \in Chan :
        (/\ srv["a"].state \in {AWAITING_CHALLENGE, CHALLENGE_SENT,
                                AWAITING_AUTH_INPUT, CONNECTED}
         /\ srv["a"].session # None
         /\ srv["a"].session.peer_info # None
         /\ srv["a"].session.peer_info.websocket = c) =>
            ~(/\ chan[c].status \in {"closed_ok", "closed_err"}
              /\ srv["a"].rd[c].pc \in {"none", "done"}
              /\ \A t \in TaskIds : srv["a"].tasks[t].pc = "none"
              /\ srv["a"].cmd.pc = "idle")

\* The user connects, types a wrong passphrase, connects again and types the
\* passphrase now displayed by the responder.
RetryPlan == <<"connect", "wrong", "connect", "right">>

\* C10: in the two-process run where the initiator's first AUTH_ATTEMPT was
\* wrong and the user then retries with a new connect_to and the right
\* passphrase, once the plan is carried out and nothing is in flight both
\* the initiator and the responder are CONNECTED.
C10_RetryAfterAuthFailure ==
    (/\ user.script = RetryPlan
     /\ PlanDone
     /\ ~InFlight
     /\ \A p \in Procs : srv[p].cmd.pc = "idle") =>
        /\ srv["a"].state = CONNECTED
        /\ srv["b"].state = CONNECTED

\* The events of evts with this name
EventsNamed(evts, name) == {evts[i] : i \in {j \in 1 .. Len(evts) : evts[j].name = name}}

\* C11: in DISCONNECTED, an inbound CONNECTION_REQUEST with session_id s makes
\* state CHALLENGE_SENT, stores a Session with session_id s, the generated
\* non-empty secret and the sender as tentative peer, sends exactly one
\* CHALLENGE_RESPONSE with session_id s on the requesting channel, and emits
\* challenge_generated with session_id s, that secret and the sender's name.
C11_ResponderAcceptsRequest ==
    \A c \in Chan, frame \in FramesOf("connection_request"), passphrase \in Secrets :
        (Listening(c) /\ chan[c].status = "open" /\ srv["a"].state = DISCONNECTED) =>
            LET s2 == OnFrame(c, frame, passphrase)
            IN  /\ s2.state = CHALLENGE_SENT
                /\ s2.session # None
                /\ s2.session.session_id = frame.session_id
                /\ s2.session.passphrase = passphrase
                /\ s2.session.passphrase # ""
                /\ s2.session.peer_info.name = frame.payload.sender_name
                /\ s2.session.peer_info.websocket = c
                /\ Len(s2.sent) = 1
                /\ s2.sent[1].ws = c
                /\ s2.sent[1].msg.type = "challenge_response"
                /\ s2.sent[1].msg.session_id = frame.session_id
                /\ EventsNamed(s2.evts, "challenge_generated")
                       = {Event("challenge_generated",
                                [session_id |-> frame.session_id,
                                 passphrase |-> passphrase,
                                 peer_name  |-> frame.payload.sender_name])}
                /\ CountEvents(s2.evts, "challenge_generated") = 1

\* C11 witness: a DISCONNECTED responder reads a CONNECTION_REQUEST from an
\* open channel and the handler leaves it in CHALLENGE_SENT.
C11_Witness ==
    \E c \in Chan, frame \in FramesOf("connection_request") :
        /\ Listening(c) /\ chan[c].status = "open"
        /\ srv["a"].rd[c].role = "server"
        /\ srv["a"].state = DISCONNECTED
        /\ OnFrame(c, frame, "p1").state = CHALLENGE_SENT

\* An AUTH_ATTEMPT for the held Session with a passphrase that is not its secret
WrongAttempt(frame) ==
    /\ frame.type = "auth_attempt"
    /\ srv["a"].session # None
    /\ frame.session_id = srv["a"].session.session_id
    /\ ~validate_passphrase(frame.payload.passphrase, srv["a"].session.passphrase)

\* C12: in CHALLENGE_SENT, an AUTH_ATTEMPT for the held Session with a wrong
\* passphrase sends AUTH_RESULT(success=false) with the same session_id,
\* emits auth_failed, clears the Session and sets state to DISCONNECTED; no
\* AUTH_ATTEMPT with that session_id handled next leads to CONNECTED.
C12_ResponderRejectsWrongPassphrase ==
    \A c \in Chan, frame \in Frames :
        (/\ Listening(c) /\ chan[c].status = "open"
         /\ srv["a"].state = CHALLENGE_SENT
         /\ WrongAttempt(frame)) =>
            LET s2 == OnFrame(c, frame, "p1")
            IN  /\ Len(s2.sent) = 1
                /\ s2.sent[1].ws = c
                /\ s2.sent[1].msg.type = "auth_result"
                /\ s2.sent[1].msg.payload.success = FALSE
                /\ s2.sent[1].msg.session_id = frame.session_id
                /\ CountEvents(s2.evts, "auth_failed") = 1
                /\ s2.session = None
                /\ s2.state = DISCONNECTED
                /\ \A pw \in Passphrases :
                      ReadFrame(Strip(s2), c, auth_attempt(frame.session_id, pw), "p1", FALSE).state
                          # CONNECTED

\* C12 witness: the responder is in CHALLENGE_SENT with a secret, and an
\* AUTH_ATTEMPT for its Session with another passphrase is rejected.
C12_Witness ==
    \E c \in Chan, frame \in Frames :
        /\ Listening(c) /\ chan[c].status = "open"
        /\ srv["a"].state = CHALLENGE_SENT
        /\ WrongAttempt(frame)
        /\ srv["a"].session.passphrase \in Secrets
        /\ OnFrame(c, frame, "p1").state = DISCONNECTED

HeartbeatLive(s) == \E t \in TaskIds : s.tasks[t].pc # "none"

\* C13: when the local disconnect command, called while CONNECTED with the
\* heartbeat running, has sent its DISCONNECT message (step 2) and is
\* suspended in that send, the heartbeat task has already been cancelled
\* (step 1).
C13_CancellationOrder ==
    (/\ srv["a"].cmd.pc = "idle"
     /\ srv["a"].state = CONNECTED
     /\ CanSend(srv["a"].websocket)
     /\ HeartbeatLive(srv["a"])) =>
        LET s2 == DisconnectPeer(srv["a"], TRUE, FALSE)
        IN  (\E i \in 1 .. Len(s2.sent) : s2.sent[i].msg.type = "disconnect")
                => ~HeartbeatLive(s2)

ReplyTypes == {"challenge_response", "auth_result", "pong", "error"}

\* C14: every CHALLENGE_RESPONSE, AUTH_RESULT, PONG and ERROR that the
\* handler of an inbound message sends on the channel of that message
\* carries the session_id of that message.
C14_ReplyEchoesSessionId ==
    \A c \in Chan, frame \in Frames, passphrase \in Secrets :
        (Listening(c) /\ chan[c].status = "open" /\ frame # Malformed) =>
            LET s2 == OnFrame(c, frame, passphrase)
            IN  \A i \in 1 .. Len(s2.sent) :
                    (s2.sent[i].ws = c /\ s2.sent[i].msg.type \in ReplyTypes) =>
                        s2.sent[i].msg.session_id = frame.session_id

\* C15: when the reader task resumes in _handle_auth_attempt after its send
\* of AUTH_RESULT(success=true), it emits connected and starts the heartbeat
\* only if state is still CONNECTED.
C15_TransitionsSerialized ==
    \A c \in Chan :
        (srv["a"].rd[c].pc = "auth_ok" /\ srv["a"].state # CONNECTED) =>
            LET s2 == ReadResume(srv["a"], c)
            IN  /\ CountEvents(s2.evts, "connected") = 0
                /\ s2.tasks = srv["a"].tasks
                /\ ~s2.overflow

\* No handler or command of process "a" is suspended in the middle of its code
Quiescent ==
    /\ srv["a"].cmd.pc = "idle"
    /\ \A c \in Chan : srv["a"].rd[c].pc \in {"none", "idle", "done"}

\* C16: in every reachable state with state = CONNECTED no Session is held,
\* and get_status reports session_id as null.
C16_SessionDestroyedOnSuccess ==
    srv["a"].state = CONNECTED =>
        /\ srv["a"].session = None
        /\ get_status(srv["a"]).session_id = "null"

\* C17: in every reachable quiescent state with state = DISCONNECTED, the
\* Peer slot and the Session slot are empty and no active channel is kept.
C17_DisconnectedHoldsNothing ==
    (Quiescent /\ srv["a"].state = DISCONNECTED) =>
        /\ srv["a"].peer = None
        /\ srv["a"].session = None
        /\ srv["a"].websocket = NoWs

\* C19: in every state other than CHALLENGE_SENT, an inbound AUTH_ATTEMPT
\* (any session_id, any passphrase, the empty one included) leaves state,
\* Session and Peer unchanged.
C19_AuthAttemptOnlyWhenChallenged ==
    \A c \in Chan, frame \in FramesOf("auth_attempt") :
        (Listening(c) /\ chan[c].status = "open" /\ srv["a"].state # CHALLENGE_SENT) =>
            LET s2 == OnFrame(c, frame, "p1")
            IN  /\ s2.state = srv["a"].state
                /\ s2.session = srv["a"].session
                /\ s2.peer = srv["a"].peer

\* An AUTH_ATTEMPT for the held Session with its secret
RightAttempt(frame) ==
    /\ frame.type = "auth_attempt"
    /\ srv["a"].session # None
    /\ frame.session_id = srv["a"].session.session_id
    /\ validate_passphrase(frame.payload.passphrase, srv["a"].session.passphrase)

\* s2 has a heartbeat task that s did not have
HeartbeatStarted(s, s2) ==
    \/ s2.overflow
    \/ \E t \in TaskIds : /\ s.tasks[t].pc = "none"
                          /\ s2.tasks[t].pc = "start"
                          /\ s2.ping_task = t

\* C20: in CHALLENGE_SENT, an AUTH_ATTEMPT for the held Session with the
\* right passphrase sets state to CONNECTED, installs the Session's
\* tentative peer as the Peer, sends AUTH_RESULT(success=true) with the same
\* session_id, emits connected with that peer's name and ip, and starts the
\* heartbeat.
C20_ResponderAcceptsRightPassphrase ==
    \A c \in Chan, frame \in Frames :
        (/\ Listening(c) /\ chan[c].status = "open"
         /\ srv["a"].state = CHALLENGE_SENT
         /\ RightAttempt(frame)) =>
            LET s2 == OnFrame(c, frame, "p1")
                peer == srv["a"].session.peer_info
            IN  /\ s2.state = CONNECTED
                /\ s2.peer = peer
                /\ s2.websocket = c
                /\ Len(s2.sent) = 1
                /\ s2.sent[1] = [ws |-> c,
                                 msg |-> auth_result(frame.session_id, TRUE, "Connected!")]
                /\ EventsNamed(s2.evts, "connected")
                       = {Event("connected", [peer_name |-> peer.name, peer_ip |-> peer.ip])}
                /\ HeartbeatStarted(srv["a"], s2)

\* C20 witness: a responder in CHALLENGE_SENT holding a secret reads the
\* AUTH_ATTEMPT with that secret from the channel of the request and the
\* handler leaves it CONNECTED with a new heartbeat task.
C20_Witness ==
    \E c \in Chan, frame \in Frames :
        /\ Listening(c) /\ chan[c].status = "open"
        /\ srv["a"].state = CHALLENGE_SENT
        /\ RightAttempt(frame)
        /\ srv["a"].session.passphrase \in Secrets
        /\ srv["a"].session.peer_info.websocket = c
        /\ OnFrame(c, frame, "p1").state = CONNECTED
        /\ ~OnFrame(c, frame, "p1").overflow

\* C18: codec round trip.  For every Message m (each message type, each
\* session_id, each combination of the type's payload fields with values of
\* every type), from_bytes(to_bytes(m)) is equal to m and
\* from_json(to_json(m)) is equal to m.
C18_CodecRoundTrip ==
    /\ codec.pc \in {"from_bytes", "to_json", "from_json"} => codec.binary = codec.m
    /\ codec.pc = "from_json" => codec.text = codec.m

\* Both decoders have run on a notification whose three payload fields hold
\* a str, a float and None.
C18_Witness ==
    /\ codec.pc = "from_json"
    /\ codec.m.type = [enum |-> "notification"]
    /\ DOMAIN codec.m.payload.dict = {"title", "body", "icon"}
    /\ codec.m.payload.dict["title"] = [str |-> "x"]
    /\ codec.m.payload.dict["body"] = [float |-> 15]
    /\ codec.m.payload.dict["icon"] = None
    /\ codec.binary = codec.m
    /\ codec.text = codec.m

\* C21: a connect_to(host) called in DISCONNECTED sets state to
\* AWAITING_CHALLENGE before it dials; when the dial and the send succeed,
\* connect_to sends exactly one CONNECTION_REQUEST, on the dialed channel,
\* with a new session_id and the device's name, leaves state as it is and
\* stores a Session with that session_id, an empty secret and the dialed
\* host and channel as tentative peer.
C21_InitiatingConnection ==
    /\ \A host \in Hosts :
          (srv["a"].cmd.pc = "idle" /\ srv["a"].state = DISCONNECTED) =>
              LET s2 == ConnectTo(srv["a"], host)
              IN  /\ s2.state = AWAITING_CHALLENGE
                  /\ s2.cmd.pc = "dial" /\ s2.cmd.host = host
                  /\ s2.sent = <<>>
    /\ \A c \in Chan, u \in SessionIds :
          (srv["a"].cmd.pc = "dial" /\ chan[c].status = "free") =>
              LET s2 == ConnectDialed(srv["a"], c, u, FALSE)
                  tentative == [name |-> "", ip |-> srv["a"].cmd.host, websocket |-> c]
              IN  /\ s2.sent = <<[ws |-> c, msg |-> connection_request(u, srv["a"].name, "")]>>
                  /\ s2.session = [session_id |-> u, passphrase |-> "",
                                   peer_info |-> tentative]
                  /\ s2.peer = tentative
                  /\ s2.state = srv["a"].state
                  /\ s2.rd[c] = [pc |-> "idle", role |-> "client"]

\* connect_to has returned: the process is in AWAITING_CHALLENGE with the
\* Session of its request and the dialed channel open.
C21_Witness ==
    /\ srv["a"].state = AWAITING_CHALLENGE
    /\ srv["a"].cmd.pc = "idle"
    /\ srv["a"].session # None
    /\ srv["a"].session.passphrase = ""
    /\ srv["a"].peer = srv["a"].session.peer_info
    /\ \E c \in Chan : /\ srv["a"].peer.websocket = c
                       /\ chan[c].status = "open" /\ chan[c].dialer = "a"
                       /\ srv["a"].rd[c].role = "client"

\* C22: in AWAITING_CHALLENGE, a CHALLENGE_RESPONSE with the session_id of the
\* held Session sets state to AWAITING_AUTH_INPUT, emits passphrase_required
\* once, with that session_id and the responder's name, and sends nothing;
\* in every other state a CHALLENGE_RESPONSE leaves state unchanged and emits
\* no passphrase_required.
C22_ChallengeResponsePrompts ==
    \A c \in Chan, frame \in FramesOf("challenge_response") :
        Listening(c) =>
            LET s2 == OnFrame(c, frame, "p1")
            IN  /\ (/\ srv["a"].state = AWAITING_CHALLENGE
                    /\ srv["a"].session # None
                    /\ frame.session_id = srv["a"].session.session_id) =>
                       /\ s2.state = AWAITING_AUTH_INPUT
                       /\ CountEvents(s2.evts, "passphrase_required") = 1
                       /\ EventsNamed(s2.evts, "passphrase_required")
                              = {Event("passphrase_required",
                                       [session_id |-> srv["a"].session.session_id,
                                        peer_name  |-> frame.payload.receiver_name])}
                       /\ s2.sent = <<>>
                /\ srv["a"].state # AWAITING_CHALLENGE =>
                       /\ s2.state = srv["a"].state
                       /\ CountEvents(s2.evts, "passphrase_required") = 0

\* C22 witness: the initiator waits for the challenge with its Session, and
\* the CHALLENGE_RESPONSE for that Session arrives on the channel it dialed.
C22_Witness ==
    \E c \in Chan, frame \in FramesOf("challenge_response") :
        /\ Listening(c) /\ chan[c].status = "open"
        /\ srv["a"].rd[c].role = "client"
        /\ srv["a"].state = AWAITING_CHALLENGE
        /\ srv["a"].session # None
        /\ frame.session_id = srv["a"].session.session_id
        /\ OnFrame(c, frame, "p1").state = AWAITING_AUTH_INPUT

\* C23: submit_passphrase(text) sends something only in AWAITING_AUTH_INPUT
\* with a Session and a Peer with a channel; what it sends then is one
\* AUTH_ATTEMPT with the Session's session_id and text, on the Peer's
\* channel, and it does send it when that channel is open.  In every state
\* it changes nothing of the process: state, Session, Peer and the rest.
C23_SubmitPassphraseFrame ==
    \A passphrase \in Passphrases :
        srv["a"].cmd.pc = "idle" =>
            LET s == srv["a"]
                s2 == SubmitPassphrase(s, passphrase)
                ready == /\ s.state = AWAITING_AUTH_INPUT
                         /\ s.session # None
                         /\ s.peer # None
            IN  /\ s2.state = s.state
                /\ s2.session = s.session
                /\ s2.peer = s.peer
                /\ [s2 EXCEPT !.sent = <<>>] = s
                /\ s2.evts = <<>>
                /\ s2.sent # <<>> =>
                       /\ ready
                       /\ s.peer.websocket # NoWs
                       /\ s2.sent = <<[ws  |-> s.peer.websocket,
                                       msg |-> auth_attempt(s.session.session_id,
                                                            passphrase)]>>
                /\ (ready /\ CanSend(s.peer.websocket)) => s2.sent # <<>>

\* C23 witness: the user is asked for the passphrase, the channel to the peer
\* is open, and submit_passphrase sends the AUTH_ATTEMPT.
C23_Witness ==
    /\ srv["a"].cmd.pc = "idle"
    /\ srv["a"].state = AWAITING_AUTH_INPUT
    /\ srv["a"].session # None
    /\ srv["a"].peer # None
    /\ Len(SubmitPassphrase(srv["a"], "p1").sent) = 1

\* C24: in AWAITING_AUTH_INPUT, an AUTH_RESULT with success=true sets state
\* to CONNECTED, emits connected once and starts the heartbeat; one with
\* success=false sets state to ERROR, emits auth_failed once, with the
\* message of the AUTH_RESULT as reason, starts no heartbeat and sends
\* nothing.
C24_AuthResultOutcome ==
    \A c \in Chan, frame \in FramesOf("auth_result") :
        (Listening(c) /\ srv["a"].state = AWAITING_AUTH_INPUT) =>
            LET s2 == OnFrame(c, frame, "p1")
            IN  IF frame.payload.success
                THEN /\ s2.state = CONNECTED
                     /\ CountEvents(s2.evts, "connected") = 1
                     /\ CountEvents(s2.evts, "auth_failed") = 0
                     /\ HeartbeatStarted(srv["a"], s2)
                ELSE /\ s2.state = ERROR
                     /\ CountEvents(s2.evts, "auth_failed") = 1
                     /\ EventsNamed(s2.evts, "auth_failed")
                            = {Event("auth_failed", [reason |-> frame.payload.message])}
                     /\ CountEvents(s2.evts, "connected") = 0
                     /\ s2.tasks = srv["a"].tasks
                     /\ ~s2.overflow
                     /\ s2.sent = <<>>

\* C24 witness: the initiator has been asked for the passphrase, holds its
\* Session, and the AUTH_RESULT(true) for it arrives on the channel it
\* dialed and starts a heartbeat task.
C24_Witness ==
    \E c \in Chan, frame \in FramesOf("auth_result"), t \in TaskIds :
        /\ Listening(c) /\ chan[c].status = "open"
        /\ srv["a"].rd[c].role = "client"
        /\ srv["a"].state = AWAITING_AUTH_INPUT
        /\ srv["a"].session # None
        /\ frame.session_id = srv["a"].session.session_id
        /\ frame.payload.success
        /\ OnFrame(c, frame, "p1").state = CONNECTED
        /\ OnFrame(c, frame, "p1").tasks[t].pc = "start"

\* C25: a NOTIFICATION handled in CONNECTED emits one notification event with
\* the message's payload and leaves state, Session and Peer as they were; a
\* NOTIFICATION handled in any other state emits no notification event.
C25_NotificationOnlyWhenConnected ==
    \A c \in Chan, frame \in FramesOf("notification") :
        Listening(c) =>
            LET s2 == OnFrame(c, frame, "p1")
            IN  /\ s2.state = srv["a"].state
                /\ s2.session = srv["a"].session
                /\ s2.peer = srv["a"].peer
                /\ IF srv["a"].state = CONNECTED
                   THEN s2.evts = <<Event("notification", frame.payload)>>
                   ELSE CountEvents(s2.evts, "notification") = 0

\* C26: a PING read from an open channel is answered with exactly one PONG
\* with the PING's session_id on that channel, in CONNECTED as in every
\* other state, and nothing of the process changes; a PONG only resets the
\* age of the last PONG, sends nothing and emits nothing.
C26_PingPongFrame ==
    /\ \A c \in Chan, frame \in FramesOf("ping") :
          (Listening(c) /\ chan[c].status = "open") =>
              LET s2 == OnFrame(c, frame, "p1")
              IN  /\ s2.sent = <<[ws |-> c, msg |-> pong(frame.session_id)]>>
                  /\ s2.evts = <<>>
                  /\ s2.state = srv["a"].state
                  /\ s2.session = srv["a"].session
                  /\ s2.peer = srv["a"].peer
                  /\ [s2 EXCEPT !.sent = <<>>] = srv["a"]
    /\ \A c \in Chan, frame \in FramesOf("pong") :
          Listening(c) =>
              LET s2 == OnFrame(c, frame, "p1")
              IN  /\ s2.sent = <<>>
                  /\ s2.evts = <<>>
                  /\ s2 = [srv["a"] EXCEPT !.pong_age = 0]

\* C26 witness: a CONNECTED process with its heartbeat running reads a PING
\* from its active channel and answers with the PONG.
C26_Witness ==
    \E c \in Chan, frame \in FramesOf("ping") :
        /\ Listening(c) /\ chan[c].status = "open"
        /\ srv["a"].state = CONNECTED
        /\ srv["a"].websocket = c
        /\ HeartbeatLive(srv["a"])
        /\ OnFrame(c, frame, "p1").sent = <<[ws |-> c, msg |-> pong(frame.session_id)]>>

\* C27: in every reachable quiescent state with state = CONNECTED, a Peer is
\* held, an active channel is held, and the active channel is the channel of
\* the Peer.
C27_ActiveChannelIsPeerChannel ==
    (Quiescent /\ srv["a"].state = CONNECTED) =>
        /\ srv["a"].peer # None
        /\ srv["a"].websocket # NoWs
        /\ srv["a"].websocket = srv["a"].peer.websocket

\* C28: whenever state is CHALLENGE_SENT, the held Session is a responder's:
\* it is there and its secret is the generated, non-empty one.
C28_ChallengeSentHoldsSecret ==
    srv["a"].state = CHALLENGE_SENT =>
        /\ srv["a"].session # None
        /\ srv["a"].session.passphrase \in Secrets

\* C29: connect_to called in a state other than DISCONNECTED changes nothing
\* (state, Session, Peer, active channel), dials no channel, sends no
\* CONNECTION_REQUEST and emits no event.
C29_ConnectOnlyWhenDisconnected ==
    \A host \in Hosts :
        (srv["a"].cmd.pc = "idle" /\ srv["a"].state # DISCONNECTED) =>
            LET s2 == ConnectTo(srv["a"], host)
            IN  /\ s2.state = srv["a"].state
                /\ s2.session = srv["a"].session
                /\ s2.peer = srv["a"].peer
                /\ s2.websocket = srv["a"].websocket
                /\ s2.cmd.pc = "idle"
                /\ s2.sent = <<>>
                /\ s2.evts = <<>>
                /\ s2 = srv["a"]

\* C29 witness: connect_to is called while the process waits for the user's
\* passphrase on a connection it dialed, and returns without dialing.
C29_Witness ==
    /\ srv["a"].cmd.pc = "idle"
    /\ srv["a"].state = AWAITING_AUTH_INPUT
    /\ srv["a"].session # None
    /\ srv["a"].peer # None
    /\ \E host \in Hosts : ConnectTo(srv["a"], host).cmd.pc = "idle"

\* C30: when the dial of a connect_to fails, or its send of the
\* CONNECTION_REQUEST, connect_to ends with state = ERROR, exactly one
\* connection_error event, no Session held and no reader task started.
C30_ConnectFailureEndsInError ==
    LET Failed(s2) ==
            /\ s2.state = ERROR
            /\ CountEvents(s2.evts, "connection_error") = 1
            /\ s2.session = None
            /\ s2.rd = srv["a"].rd
            /\ s2.cmd.pc = "idle"
    IN  /\ srv["a"].cmd.pc = "dial" =>
               Failed(ConnectDialed(srv["a"], NoWs, FreshId, FALSE))
        /\ (srv["a"].cmd.pc = "conn_sent" /\ ~CanSend(srv["a"].cmd.ws)) =>
               Failed(ConnectResume(srv["a"]))

\* C31: the state_changed events form a chain consistent with the state.
\* The new value of the last state_changed event emitted so far
\* (DISCONNECTED, the initial state, before the first one) is the current
\* state; and whatever operation runs, the first state_changed event it
\* emits has the current state as old value, each later one has the new
\* value of the one before as old value, the last one has the state the
\* operation leaves as new value, and an operation that emits none leaves
\* the state as it was.
C31_StateChangedChain ==
    /\ ghost["a"].last = srv["a"].state
    /\ \A s2 \in StepResults :
          LET changes == StateChanges(s2.evts)
              n == Len(changes)
          IN  IF n = 0 THEN s2.state = srv["a"].state
              ELSE /\ changes[1].data.old_state = ghost["a"].last
                   /\ \A i \in 1 .. n - 1 :
                         changes[i + 1].data.old_state = changes[i].data.new_state
                   /\ changes[n].data.new_state = s2.state

\* C31 witness: the process has emitted state_changed events and is
\* CONNECTED, and an operation that can run now emits two more, through
\* another state to DISCONNECTED.
C31_Witness ==
    /\ srv["a"].state = CONNECTED
    /\ ghost["a"].last = CONNECTED
    /\ \E s2 \in StepResults :
          /\ Len(StateChanges(s2.evts)) = 2
          /\ StateChanges(s2.evts)[1].data.new_state # DISCONNECTED
          /\ s2.state = DISCONNECTED

====
